---------------------------- MODULE Spec2Model ----------------------------
(***************************************************************************)
(* Model of the PSoC BLE DFU host: cydfu.DFUProtocol (packet codec, status *)
(* interpreter, send-and-await-reply engine), update.Delegate and          *)
(* update.Target.updateFirmware.                                           *)
(*                                                                         *)
(* Bytes are integers 0..255, a bytes object is a sequence of bytes.       *)
(***************************************************************************)
EXTENDS Integers, Sequences, FiniteSets, TLC

VARIABLES
    \* ---- packet codec exercised alone (SpecCodec) ----
    stage,      \* "input" | "encoded" | "refused" | "buffered" | "decoded"
    cmdIn,      \* cmd argument of _createCmdPacket
    payloadIn,  \* payload argument of _createCmdPacket
    packet,     \* value returned by _createCmdPacket
    buf,        \* buffer handed to _getResponse
    edit,       \* index of the byte of packet replaced in buf (0: none)
    resp,       \* outcome of _getResponse(buf)
    outcome,    \* outcome of lines 282-287 on buf (_getResponse, _checkStatusCode)
    statusCode, \* status byte handed to _checkStatusCode
    raised,     \* what _checkStatusCode(statusCode) raised ("None": nothing), or
                \* what _createCmdPacket raised
    \* ---- DFUProtocol over the transport ----
    engine,     \* "Idle" | "Sending" | "AwaitingReply": where the command method is
    cur,        \* the command method called last: [name, cmd, payload]
    toSend,     \* fragments of the packet _sendPacket still has to write
    sent,       \* fragments of the current command written so far
    nWrites,    \* number of writes to the command characteristic in the session
    cmdLog,     \* the packets updateFirmware has fully written to the transport, in order
    delegate,   \* Delegate.handle and Delegate.data
    inflight,   \* notifications the peripheral has emitted, not yet received
    arriving,   \* how many of them arrive before the deadline of the current wait
    reply,      \* outcome of _sendCommandGetResponse of the current command
    result,     \* outcome of the command method
    seqno,      \* number of command methods called so far
    dfuInfo,    \* the fields the last successful enterDFU unpacked and printed
    \* ---- history, for the properties ----
    outstanding,\* reply-expecting commands sent and neither answered nor timed out
    replyDue,   \* a well-formed reply to the current command arrives before its deadline
    arrivals,   \* value of arriving when the current wait began
    atIssue,    \* delegate.handle when the current command was called
    acked,      \* every reply-expecting command so far got its own status-0 reply in time
    heard,      \* the notification handed to the delegate during the current wait
    \* ---- Target.updateFirmware ----
    pc,         \* the statement of updateFirmware that runs next, or the call of
                \* DFUProtocol.__init__ that waits
    image,      \* the data lines of the cyacd2 file app was opened on
    app,        \* the Application: header fields, lines left to read, currRow, numRows
    maxDataLength,
    fwImgBound, \* whether the module global fwImg is bound (to app)
    chunks,     \* chunks of the current row not sent yet
    row,        \* [addr, crc] of the current row
    error,      \* the exception updateFirmware ended with ("" : none)
    \* ---- cydfu.Application on a file (SpecApp) ----
    fileName,   \* the name given to Application(...)
    fileLines,  \* the lines of the file, without their line ends
    appSt,      \* "closed" (not constructed yet) | "open" (constructed) | "failed"
    openExc,    \* the exception Application(...) raised ("": none)
    fapp,       \* the Application object (NoApplication: none was produced)
    rowsOut,    \* history: the rows getNextRow returned, each with the line it read
    rowExc,     \* the exception of the last getNextRow call ("": none)
    nRowCalls,  \* number of getNextRow calls so far
    metaExc,    \* the exception of the last getHeader or getAppInfo call on the object
    nMetaCalls  \* number of getHeader and getAppInfo calls on the object so far

codecVars == <<stage, cmdIn, payloadIn, packet, buf, edit, resp, outcome,
              statusCode, raised>>
engineVars == <<engine, cur, toSend, sent, nWrites, cmdLog, delegate, inflight,
                arriving, reply, result, seqno, dfuInfo, outstanding, replyDue, arrivals,
                atIssue, acked, heard>>
updateVars == <<pc, image, app, maxDataLength, fwImgBound, chunks, row, error>>

fileVars == <<fileName, fileLines, appSt, openExc, fapp, rowsOut, rowExc, nRowCalls,
              metaExc, nMetaCalls>>

vars == <<codecVars, engineVars, updateVars, fileVars>>

-----------------------------------------------------------------------------
(* Bounds of the model *)

MaxPayloadLen == 2
MaxBufLen == 7

-----------------------------------------------------------------------------
(* Program constants: cydfu.py lines 49-64 *)

START_OF_PACKET == 1
END_OF_PACKET == 23

-----------------------------------------------------------------------------
(* Input domains *)

\* command / status bytes given to _createCmdPacket
CmdVals == {0, 2, 56, 255}
\* payload bytes
PayloadBytes == {0, 1, 23, 255}
\* values a byte of a packet is replaced by
ByteVals == {0, 1, 2, 23, 254, 255}
\* bytes of a raw buffer handed to _getResponse
BufBytes == {0, 1, 23, 254, 255}

SeqsUpTo(S, n) == UNION {[1..k -> S] : k \in 0..n}

-----------------------------------------------------------------------------
(* Packet codec *)

RECURSIVE SumBytes(_)
SumBytes(data) ==
    IF data = <<>> THEN 0 ELSE Head(data) + SumBytes(Tail(data))

\* a mutant: one's complement instead of two's complement
CalcChecksumOnes(data) == (65535 - (SumBytes(data) % 65536)) % 65536

\* _calcChecksum_2sComplement_16bit: (-cs & 0xFFFF)
CalcChecksum(data) == (65536 - (SumBytes(data) % 65536)) % 65536

\* struct.pack("<H", n)
PackU16(n) == << n % 256, (n \div 256) % 256 >>

\* struct.unpack("<H", <<lo, hi>>)
UnpackU16(lo, hi) == lo + 256 * hi

\* a mutant: the length field is written big-endian
CreateCmdPacketBigEndian(cmd, payload) ==
    LET n == Len(payload)
        body == <<START_OF_PACKET, cmd, (n \div 256) % 256, n % 256>> \o payload
    IN  body \o PackU16(CalcChecksum(body)) \o <<END_OF_PACKET>>

\* Python's None where bytes are expected: no bytes object (no byte is negative)
None == <<-1>>

\* _createCmdPacket lines 232-237: the exception raised instead of a packet,
\* "" when a packet is returned: HostError for a payload that is no bytes
\* object, struct.error for a length that does not fit the format "H"
CreateCmdPacketExc(payload) ==
    IF payload = None THEN "HostError"
    ELSE IF Len(payload) > 65535 THEN "struct.error"
    ELSE ""

\* _createCmdPacket: the packet returned, no byte when it raises
CreateCmdPacket(cmd, payload) ==
    IF CreateCmdPacketExc(payload) # "" THEN <<>>
    ELSE LET body == <<START_OF_PACKET, cmd>> \o PackU16(Len(payload)) \o payload
         IN  body \o PackU16(CalcChecksum(body)) \o <<END_OF_PACKET>>

Malformed == [ok |-> FALSE, status |-> 0, payload |-> <<>>, err |-> "malformed"]
Corrupted == [ok |-> FALSE, status |-> 0, payload |-> <<>>, err |-> "currupted"]

\* a mutant: the checksum of the reply is not verified
GetResponseNoChecksum(pkt) ==
    IF Len(pkt) < 4 THEN Malformed
    ELSE LET dataLength == UnpackU16(pkt[3], pkt[4])
             n == Len(pkt)
         IN  IF n - 4 # dataLength + 3 THEN Malformed
             ELSE IF pkt[1] # START_OF_PACKET \/ pkt[n] # END_OF_PACKET THEN Malformed
             ELSE [ok |-> TRUE, status |-> pkt[2],
                   payload |-> SubSeq(pkt, 5, 4 + dataLength), err |-> ""]

\* _getResponse: both struct.unpack calls need buffers of the exact size
\* (4 bytes, then dataLength + 3 bytes); any exception is a HostError
GetResponse(pkt) ==
    IF Len(pkt) < 4 THEN Malformed
    ELSE LET dataLength == UnpackU16(pkt[3], pkt[4])
             n == Len(pkt)
         IN  IF n - 4 # dataLength + 3 THEN Malformed
             ELSE IF pkt[1] # START_OF_PACKET \/ pkt[n] # END_OF_PACKET THEN Malformed
             ELSE IF CalcChecksum(SubSeq(pkt, 1, n - 3)) # UnpackU16(pkt[n-2], pkt[n-1])
                  THEN Corrupted
             ELSE [ok |-> TRUE, status |-> pkt[2],
                   payload |-> SubSeq(pkt, 5, 4 + dataLength), err |-> ""]

-----------------------------------------------------------------------------
(* Status interpreter *)

\* the exception classes of cydfu.py and their base class
BaseOf ==
    [HostError |-> "Exception", DFUError |-> "Exception",
     DFUErrorVerify |-> "DFUError", DFUErrorLength |-> "DFUError",
     DFUErrorData |-> "DFUError", DFUErrorCmd |-> "DFUError",
     DFUErrorChecksum |-> "DFUError", DFUErrorRow |-> "DFUError",
     DFUErrorRowAccess |-> "DFUError", DFUErrorUnknown |-> "DFUError",
     UnexpectedError |-> "Exception", InvalidFileType |-> "Exception",
     InvalidApplicationFile |-> "Exception"]

\* the 8 device error kinds
DFUErrorKinds ==
    {"DFUErrorVerify", "DFUErrorLength", "DFUErrorData", "DFUErrorCmd",
     "DFUErrorChecksum", "DFUErrorRow", "DFUErrorRowAccess", "DFUErrorUnknown"}

\* isinstance(an exception of class k, c)
RECURSIVE IsInstance(_, _)
IsInstance(k, c) ==
    \/ k = c
    \/ k \in DOMAIN BaseOf /\ IsInstance(BaseOf[k], c)

\* _DFU_STATUS_CODE
DFU_STATUS_CODE ==
    [c \in {0, 2, 3, 4, 5, 8, 10, 11, 15} |->
        CASE c = 0  -> "None"
          [] c = 2  -> "DFUErrorVerify"
          [] c = 3  -> "DFUErrorLength"
          [] c = 4  -> "DFUErrorData"
          [] c = 5  -> "DFUErrorCmd"
          [] c = 8  -> "DFUErrorChecksum"
          [] c = 10 -> "DFUErrorRow"
          [] c = 11 -> "DFUErrorRowAccess"
          [] c = 15 -> "DFUErrorUnknown"]

\* a mutant: a status code that is not in the table is the device's unknown error
CheckStatusCodeUnknownDefault(code) ==
    IF code \in DOMAIN DFU_STATUS_CODE THEN DFU_STATUS_CODE[code]
    ELSE "DFUErrorUnknown"

\* _checkStatusCode: "None" when nothing is raised, else the exception raised
CheckStatusCode(code) ==
    IF code \in DOMAIN DFU_STATUS_CODE THEN DFU_STATUS_CODE[code]
    ELSE "UnexpectedError"

\* how a call ends: an exception raised (kind, message), or a value returned
Raised(kind, msg) == [kind |-> kind, msg |-> msg, value |-> <<>>]
Returned(value) == [kind |-> "ok", msg |-> "", value |-> value]

\* a mutant: the status code is checked before the frame is validated
DecodeReplyStatusFirst(data) ==
    IF Len(data) >= 2 /\ CheckStatusCode(data[2]) # "None"
    THEN Raised(CheckStatusCode(data[2]), "")
    ELSE LET r == GetResponse(data)
         IN  IF ~r.ok THEN Raised("HostError", r.err) ELSE Returned(r.payload)

\* _sendCommandGetResponse lines 282-287, on the delegate's data
DecodeReply(data) ==
    LET r == GetResponse(data)
    IN  IF ~r.ok THEN Raised("HostError", r.err)
        ELSE IF CheckStatusCode(r.status) # "None"
             THEN Raised(CheckStatusCode(r.status), "")
        ELSE Returned(r.payload)

NoResp == [ok |-> FALSE, status |-> 0, payload |-> <<>>, err |-> "not called"]
NoOutcome == [kind |-> "none", msg |-> "", value |-> <<>>]

-----------------------------------------------------------------------------
(* DFUProtocol commands: cydfu.py lines 52-64, 91-194 *)

CMD_ENTER_DFU == 56
CMD_SYNC_DFU == 53
CMD_EXIT_DFU == 59
CMD_SEND_DATA == 55
CMD_SEND_DATA_WITHOUT_RESPONSE == 71
CMD_PROGRAM_DATA == 73
CMD_VERIFY_DATA == 74
CMD_ERASE_DATA == 68
CMD_VERIFY_APPLICATION == 49
CMD_SET_APPLICATION_METADATA == 76
CMD_GET_METADATA == 60

\* maxLen of _sendPacket
MAX_LEN == 20

\* struct.error of struct.pack: a value is outside the range of its format
\* (no byte is 256)
StructError == <<256>>

\* struct.pack("<B", n): one byte, or struct.error unless 0 <= n <= 255
PackU8(n) == IF n < 0 \/ n > 255 THEN StructError ELSE <<n>>

\* struct.pack("<I", n): four bytes, or struct.error unless 0 <= n < 2^32
PackU32(n) ==
    IF n < 0 \/ (n \div 65536) > 65535 THEN StructError
    ELSE << n % 256, (n \div 256) % 256, (n \div 65536) % 256, (n \div 16777216) % 256 >>

RECURSIVE Concat(_)
Concat(ss) == IF ss = <<>> THEN <<>> ELSE Head(ss) \o Concat(Tail(ss))

\* TypeError of bytes + None (no byte is 257)
TypeError == <<257>>

\* struct.pack of several fields, and what is appended to it: the bytes in
\* order, struct.error when one field is out of range, else TypeError when
\* what is appended is None
Pack(fields) ==
    IF \E i \in DOMAIN fields : fields[i] = StructError THEN StructError
    ELSE IF \E i \in DOMAIN fields : fields[i] = None THEN TypeError
    ELSE Concat(fields)

\* a mutant: the four bytes are read big-endian
UnpackU32BigEndian(b) == 16777216 * b[1] + 65536 * b[2] + 256 * b[3] + b[4]

\* struct.unpack("<I", b)
UnpackU32(b) == b[1] + 256 * b[2] + 65536 * b[3] + 16777216 * b[4]

\* a 32-bit checksum is kept as <<high 16 bits, low 16 bits>>; struct.pack("<I", crc)
PackCrc(c) == PackU16(c[2]) \o PackU16(c[1])

\* the exception that ends a command method before a packet is made, "" when
\* there is none: that of building the payload, else that of _createCmdPacket
CallExc(payload) ==
    IF payload = StructError THEN "struct.error"
    ELSE IF payload = TypeError THEN "TypeError"
    ELSE CreateCmdPacketExc(payload)

\* a command method called: the packet it asks for, or the exception it
\* raises before any packet is made
Call(name, cmd, payload) ==
    [name |-> name, cmd |-> cmd,
     payload |-> IF CallExc(payload) # "" THEN <<>> ELSE payload,
     exc |-> CallExc(payload)]

EnterDFU(productID) == Call("enterDFU", CMD_ENTER_DFU, PackU32(productID))
SyncDFU == Call("syncDFU", CMD_SYNC_DFU, <<>>)
ExitDFU == Call("exitDFU", CMD_EXIT_DFU, <<>>)
SendData(data) == Call("sendData", CMD_SEND_DATA, data)
SendDataWithoutResponse(data) ==
    Call("sendDataWithoutResponse", CMD_SEND_DATA_WITHOUT_RESPONSE, data)
ProgramData(rowAddr, crc, data) ==
    Call("programData", CMD_PROGRAM_DATA, Pack(<<PackU32(rowAddr), PackCrc(crc), data>>))
VerifyData(rowAddr, crc, data) ==
    Call("verifyData", CMD_VERIFY_DATA, Pack(<<PackU32(rowAddr), PackCrc(crc), data>>))
EraseData(rowAddr) == Call("eraseData", CMD_ERASE_DATA, PackU32(rowAddr))
VerifyApplication(appNum) ==
    Call("verifyApplication", CMD_VERIFY_APPLICATION, PackU8(appNum))
SetApplicationMetadata(appNum, appStartAddr, appLength) ==
    Call("setApplicationMetadata", CMD_SET_APPLICATION_METADATA,
         Pack(<<PackU8(appNum), PackU32(appStartAddr), PackU32(appLength)>>))
GetMetadata(fromRowOffset, toRowOffset) ==
    Call("getMetadata", CMD_GET_METADATA,
         Pack(<<PackU32(fromRowOffset), PackU32(toRowOffset)>>))

NoCall == Call("none", 0, <<>>)

FireAndForget == {"syncDFU", "exitDFU", "sendDataWithoutResponse"}

\* a mutant: every command goes through _sendCommandGetResponse
ExpectsReplyAlways(name) == TRUE

\* whether the command method calls _sendCommandGetResponse (it waits for a
\* reply) or _createCmdPacket and _sendPacket only
ExpectsReply(name) == name \notin FireAndForget

\* [s[i:i+n] for i in range(0, len(s), n)]
RECURSIVE Slices(_, _)
Slices(s, n) ==
    IF s = <<>> THEN <<>>
    ELSE IF Len(s) <= n THEN <<s>>
    ELSE <<SubSeq(s, 1, n)>> \o Slices(SubSeq(s, n + 1, Len(s)), n)

\* slices of n items of which the first one, not the last, is the short one
SlicesShortFirst(s, n) ==
    IF Len(s) % n = 0 THEN Slices(s, n)
    ELSE <<SubSeq(s, 1, Len(s) % n)>> \o Slices(SubSeq(s, (Len(s) % n) + 1, Len(s)), n)

\* a mutant: the short fragment is written first
FragmentsShortFirst(pkt, maxLen) == SlicesShortFirst(pkt, maxLen)

\* _sendPacket line 292
Fragments(pkt, maxLen) == Slices(pkt, maxLen)

\* a mutant: the handle of the notification received is not looked at
WaitForResponseAnyHandle(got, handle) == got

\* a mutant: the result of waitForNotifications is ignored
WaitForResponseIgnoreTimeout(got, handle) == handle = "cmd"

\* _waitForResponse: got is what waitForNotifications returned, handle is
\* delegate.handle afterwards; "cmd" is _dfuCmdChar.getHandle()
WaitForResponse(got, handle) ==
    IF ~got THEN FALSE
    ELSE IF handle # "cmd" THEN FALSE
    ELSE TRUE

\* _sendCommandGetResponse from line 278 on
ReplyOutcome(got, dlg) ==
    IF ~WaitForResponse(got, dlg.handle) THEN Raised("HostError", "not received")
    ELSE DecodeReply(dlg.data)

ReturnedNone == Returned(None)

NoInfo == [exc |-> "", jtagID |-> -1, deviceRev |-> -1, dfuSdkVer |-> -1]

\* s[:n]
Prefix(s, n) == SubSeq(s, 1, IF Len(s) < n THEN Len(s) ELSE n)

\* enterDFU line 100: struct.unpack("<IBI", respData[:5] + b'\x00' + respData[5:]);
\* "<IBI" takes exactly 9 bytes
EnterDFUFields(respData) ==
    LET padded == Prefix(respData, 5) \o <<0>> \o SubSeq(respData, 6, Len(respData))
    IN  IF Len(padded) # 9 THEN [NoInfo EXCEPT !.exc = "struct.error"]
        ELSE [exc |-> "", jtagID |-> UnpackU32(SubSeq(padded, 1, 4)),
              deviceRev |-> padded[5], dfuSdkVer |-> UnpackU32(SubSeq(padded, 6, 9))]

\* what the command method does with the value of _sendCommandGetResponse:
\* enterDFU unpacks "<IBI" (9 bytes) from the payload with one zero byte
\* inserted, verifyApplication unpacks "<B" (1 byte) and returns the number,
\* the others return nothing
Finish(name, rep) ==
    IF rep.kind # "ok" THEN rep
    ELSE IF name = "enterDFU"
         THEN IF EnterDFUFields(rep.value).exc = "" THEN ReturnedNone
              ELSE Raised("struct.error", "")
    ELSE IF name = "verifyApplication"
         THEN IF Len(rep.value) = 1 THEN Returned(rep.value[1])
              ELSE Raised("struct.error", "")
    ELSE ReturnedNone

-----------------------------------------------------------------------------
(* The peripheral: what it may notify after a command packet *)

MaxInflight == 2

JtagReply8 == <<1, 2, 3, 4, 5, 6, 7, 8>>
JtagReply9 == <<1, 2, 3, 4, 5, 6, 7, 8, 9>>

ReplyPayloads(name) ==
    IF name = "enterDFU" THEN {JtagReply8, JtagReply9}
    ELSE IF name = "verifyApplication" THEN {<<1>>, <<0>>, <<>>}
    ELSE IF name = "getMetadata" THEN {<<7, 9>>}
    ELSE {<<>>}

\* a status-0 frame whose checksum is off by one
CorruptFrame == <<1, 0, 0, 0, 254, 255, 23>>

ReplyFrames(name) ==
    {CreateCmdPacket(0, p) : p \in ReplyPayloads(name)}
        \cup {CreateCmdPacket(2, <<>>), CreateCmdPacket(1, <<>>), CorruptFrame}

Notification(handle, data, n) == [handle |-> handle, data |-> data, re |-> n]

\* notifications answering command number n, and one of another characteristic
Notifications(name, n) ==
    {Notification("cmd", d, n) : d \in ReplyFrames(name)}
        \cup {Notification("other", CreateCmdPacket(0, <<>>), n)}

NumReplies(em) == Cardinality({i \in DOMAIN em : em[i].handle = "cmd"})

\* at most one reply to the command, among notifications of other
\* characteristics, as long as the queue has room
Emissions(name, n, room) ==
    {em \in SeqsUpTo(Notifications(name, n), room) : NumReplies(em) <= 1}

\* a frame _getResponse accepts
IsFrame(d) == GetResponse(d).ok

\* the status-0 replies whose payload the command method can unpack
IsAck(name, d) ==
    /\ IsFrame(d)
    /\ GetResponse(d).status = 0
    /\ name = "enterDFU" => Len(GetResponse(d).payload) = 8
    /\ name = "verifyApplication" => Len(GetResponse(d).payload) = 1

-----------------------------------------------------------------------------
(* The engine: one command method at a time *)

NoDelegate == [handle |-> "None", data |-> None]

NoNotification == [handle |-> "None", data |-> None, re |-> 0]

\* notifications the peripheral may hand to the delegate while
\* DFUProtocol.__init__ is in one of its blocking calls (lines 82, 85, 244, 247)
EarlyNotifications ==
    { [handle |-> "cmd", data |-> CreateCmdPacket(0, <<>>)],
      [handle |-> "other", data |-> CreateCmdPacket(0, <<>>)] }

\* no command called yet, the delegate being d
EngineAt(d) ==
    /\ engine = "Idle"
    /\ cur = NoCall
    /\ toSend = <<>>
    /\ sent = <<>>
    /\ nWrites = 0
    /\ cmdLog = <<>>
    /\ delegate = d
    /\ inflight = <<>>
    /\ arriving = 0
    /\ reply = NoOutcome
    /\ result = NoOutcome
    /\ seqno = 0
    /\ dfuInfo = NoInfo
    /\ heard = NoNotification
    /\ outstanding = 0
    /\ replyDue = FALSE
    /\ arrivals = 0
    /\ atIssue = NoDelegate.handle
    /\ acked = TRUE

\* before DFUProtocol is constructed: the Delegate is as its __init__ left it
EngineInit == EngineAt(NoDelegate)

\* a mutant: a command method is entered while the previous one still waits
CallerMayEnterWaiting(e) == e \in {"Idle", "AwaitingReply"}

\* the caller is in no command method: each call returns (or raises) before
\* the next statement of the caller runs
CallerMayEnter(e) == e = "Idle"

\* a command method is called: it packs its payload, then _createCmdPacket
\* (an exception of either ends it there, nothing is sent), then _sendPacket
\* begins
Issue(call) ==
    /\ cur' = call
    /\ sent' = <<>>
    /\ IF call.exc # ""
       THEN /\ toSend' = <<>>
            /\ engine' = "Idle"
            /\ result' = Raised(call.exc, IF call.exc = "HostError"
                                           THEN "payload must be a bytes object"
                                           ELSE "")
       ELSE /\ toSend' = Fragments(CreateCmdPacket(call.cmd, call.payload), MAX_LEN)
            /\ engine' = "Sending"
            /\ result' = NoOutcome
    /\ seqno' = seqno + 1
    /\ reply' = NoOutcome
    /\ atIssue' = delegate.handle
    /\ heard' = NoNotification
    /\ UNCHANGED <<nWrites, cmdLog, delegate, inflight, arriving, outstanding,
                   replyDue, arrivals, acked, dfuInfo>>

\* _sendPacket line 294: the write in progress returns; after the last one
\* the command either returns (no reply expected) or waits, while the
\* peripheral answers
WriteFragment ==
    /\ engine = "Sending"
    /\ toSend # <<>>
    /\ sent' = Append(sent, Head(toSend))
    /\ toSend' = Tail(toSend)
    /\ nWrites' = nWrites + 1
    /\ UNCHANGED <<cur, delegate, seqno, atIssue, acked, dfuInfo, heard>>
    /\ UNCHANGED <<codecVars, updateVars, fileVars>>
    /\ IF Tail(toSend) # <<>>
       THEN UNCHANGED <<engine, cmdLog, inflight, arriving, reply, result,
                        outstanding, replyDue, arrivals>>
       ELSE /\ cmdLog' = IF pc = "off" THEN cmdLog ELSE Append(cmdLog, Concat(sent'))
            /\ IF ExpectsReply(cur.name)
               THEN /\ engine' = "AwaitingReply"
                    /\ outstanding' = outstanding + 1
                    /\ \E em \in Emissions(cur.name, seqno, MaxInflight - Len(inflight)) :
                          inflight' = inflight \o em
                    /\ arriving' \in 0..Len(inflight')
                    /\ arrivals' = arriving'
                    /\ replyDue' = \E i \in 1..arriving' :
                                      /\ inflight'[i].handle = "cmd"
                                      /\ inflight'[i].re = seqno
                                      /\ IsFrame(inflight'[i].data)
                    /\ UNCHANGED <<reply, result>>
               ELSE /\ engine' = "Idle"
                    /\ result' = ReturnedNone
                    /\ UNCHANGED <<inflight, arriving, reply, outstanding,
                                   replyDue, arrivals>>

\* Delegate.handleNotification called inside a write of _sendPacket (line
\* 294), the write waiting on afterwards: the peripheral hands each
\* notification it receives during a blocking call to the delegate, one call
\* per notification, and waitForNotifications will not see it
NotificationDuringWrite ==
    /\ engine = "Sending"
    /\ toSend # <<>>
    /\ inflight # <<>>
    /\ delegate' = [handle |-> Head(inflight).handle, data |-> Head(inflight).data]
    /\ inflight' = Tail(inflight)
    /\ UNCHANGED <<engine, cur, toSend, sent, nWrites, cmdLog, arriving, reply, result,
                   seqno, dfuInfo, outstanding, replyDue, arrivals, atIssue, acked, heard>>
    /\ UNCHANGED <<codecVars, updateVars, fileVars>>

\* the rest of _sendCommandGetResponse and of the command method, once
\* waitForNotifications has returned got with the delegate now dlg
Complete(got, dlg) ==
    /\ reply' = ReplyOutcome(got, dlg)
    /\ result' = Finish(cur.name, reply')
    /\ dfuInfo' = IF cur.name = "enterDFU" /\ result'.kind = "ok"
                  THEN EnterDFUFields(reply'.value) ELSE dfuInfo
    /\ engine' = "Idle"
    /\ arriving' = 0
    /\ outstanding' = outstanding - 1
    /\ UNCHANGED <<cur, toSend, sent, nWrites, cmdLog, seqno, replyDue, arrivals, atIssue>>

\* waitForNotifications returns True: the first notification in flight was
\* handed to Delegate.handleNotification
NotificationReceived ==
    /\ engine = "AwaitingReply"
    /\ arriving >= 1
    /\ delegate' = [handle |-> Head(inflight).handle, data |-> Head(inflight).data]
    /\ inflight' = Tail(inflight)
    /\ heard' = Head(inflight)
    /\ acked' = (acked /\ Head(inflight).handle = "cmd" /\ Head(inflight).re = seqno
                       /\ IsAck(cur.name, Head(inflight).data))
    /\ Complete(TRUE, delegate')
    /\ UNCHANGED <<codecVars, updateVars, fileVars>>

\* waitForNotifications returns False: nothing arrived before the deadline
TimedOut ==
    /\ engine = "AwaitingReply"
    /\ arriving = 0
    /\ acked' = FALSE
    /\ UNCHANGED <<delegate, inflight, heard>>
    /\ Complete(FALSE, delegate)
    /\ UNCHANGED <<codecVars, updateVars, fileVars>>

-----------------------------------------------------------------------------
(* CRC-32C (crcmod 'crc-32c'): reflected polynomial 0x82F63B78, initial    *)
(* value and final xor 0xFFFFFFFF; a value is <<high 16 bits, low 16 bits>> *)

RECURSIVE BitXor(_, _)
BitXor(a, b) ==
    IF a = 0 THEN b
    ELSE IF b = 0 THEN a
    ELSE (((a % 2) + (b % 2)) % 2) + 2 * BitXor(a \div 2, b \div 2)

CrcShift(c) ==
    LET hi == c[1] \div 2
        lo == (c[2] \div 2) + (c[1] % 2) * 32768
    IN  IF c[2] % 2 = 1 THEN <<BitXor(hi, 33526), BitXor(lo, 15224)>> ELSE <<hi, lo>>

RECURSIVE CrcBits(_, _)
CrcBits(c, k) == IF k = 0 THEN c ELSE CrcBits(CrcShift(c), k - 1)

\* the table of the byte-wise algorithm
CrcTable == [b \in 0..255 |-> CrcBits(<<0, b>>, 8)]

\* one byte: table[(crc ^ byte) & 0xFF] ^ (crc >> 8)
CrcByte(c, b) ==
    LET t == CrcTable[BitXor(c[2] % 256, b)]
    IN  << BitXor(t[1], c[1] \div 256),
           BitXor(t[2], (c[2] \div 256) + (c[1] % 256) * 256) >>

RECURSIVE CrcUpdate(_, _)
CrcUpdate(c, data) ==
    IF data = <<>> THEN c
    ELSE LET c1 == CrcByte(c, Head(data))
         IN  IF c1[1] >= 0 THEN CrcUpdate(c1, Tail(data)) ELSE c1

Crc32c(data) ==
    LET c == CrcUpdate(<<65535, 65535>>, data)
    IN  <<BitXor(c[1], 65535), BitXor(c[2], 65535)>>

-----------------------------------------------------------------------------
(* Application: the data rows of a cyacd2 file. A line is a sequence of    *)
(* characters, without its line end.                                       *)

HexDigits ==
    {"0", "1", "2", "3", "4", "5", "6", "7", "8", "9",
     "A", "B", "C", "D", "E", "F", "a", "b", "c", "d", "e", "f"}

HexVal(c) ==
    CASE c = "0" -> 0 [] c = "1" -> 1 [] c = "2" -> 2 [] c = "3" -> 3
      [] c = "4" -> 4 [] c = "5" -> 5 [] c = "6" -> 6 [] c = "7" -> 7
      [] c = "8" -> 8 [] c = "9" -> 9
      [] c \in {"A", "a"} -> 10 [] c \in {"B", "b"} -> 11
      [] c \in {"C", "c"} -> 12 [] c \in {"D", "d"} -> 13
      [] c \in {"E", "e"} -> 14 [] c \in {"F", "f"} -> 15

\* the control characters U+000B, U+001C, U+001D, U+001E, U+001F
VT == ""
FS == ""
GS == ""
RS == ""
US == ""

\* ASCII white space: what bytes.fromhex skips and int() allows around a number
AsciiWhiteSpace == {" ", "\t", "\n", "\r", "\f", VT}

\* the characters of ASCII text that str.strip() removes
WhiteSpace == AsciiWhiteSpace \cup {FS, GS, RS, US}

\* bytes.fromhex: white space is skipped before each byte and at the end, a
\* byte is two hex digits next to each other; anything else is a ValueError
RECURSIVE FromHex(_)
FromHex(cs) ==
    IF cs = <<>> THEN [ok |-> TRUE, bytes |-> <<>>]
    ELSE IF Head(cs) \in AsciiWhiteSpace THEN FromHex(Tail(cs))
    ELSE IF Len(cs) < 2 \/ cs[1] \notin HexDigits \/ cs[2] \notin HexDigits
         THEN [ok |-> FALSE, bytes |-> <<>>]
    ELSE LET rest == FromHex(SubSeq(cs, 3, Len(cs)))
         IN  IF ~rest.ok THEN rest
             ELSE [ok |-> TRUE,
                   bytes |-> <<16 * HexVal(cs[1]) + HexVal(cs[2])>> \o rest.bytes]

\* the bytes bytes.fromhex returns
HexBytes(cs) == FromHex(cs).bytes

\* whether bytes.fromhex returns
FromHexOk(cs) == FromHex(cs).ok

\* the text without the characters of ws at its two ends
RECURSIVE StripOf(_, _)
StripOf(cs, ws) ==
    IF cs = <<>> THEN cs
    ELSE IF Head(cs) \in ws THEN StripOf(Tail(cs), ws)
    ELSE IF cs[Len(cs)] \in ws THEN StripOf(SubSeq(cs, 1, Len(cs) - 1), ws)
    ELSE cs

\* str.strip() on ASCII text
Strip(cs) == StripOf(cs, WhiteSpace)

\* header fields of the images
FileVersion == 1
SiliconID == 504443918
SiliconRevision == 33
ChecksumType == 0
ProductID == 16909060
AppID == 1
StartAddr == 268435456
AppLength == 4096

\* the Application after __init__: the two metadata lines are read
OpenedApp(lines) ==
    [fileVersion |-> FileVersion, siliconID |-> SiliconID,
     siliconRevision |-> SiliconRevision, checksumType |-> ChecksumType,
     productID |-> ProductID, appID |-> AppID, startAddr |-> StartAddr,
     length |-> AppLength, lines |-> lines, currRow |-> 0, numRows |-> Len(lines),
     closed |-> FALSE]

\* no Application object; -1 is also an attribute that is not assigned yet
NoApplication ==
    [fileVersion |-> -1, siliconID |-> -1, siliconRevision |-> -1, checksumType |-> -1,
     productID |-> -1, appID |-> -1, startAddr |-> -1, length |-> -1,
     lines |-> <<>>, currRow |-> -1, numRows |-> -1, closed |-> FALSE]

\* next(self._app): the exception it raises, "" when it returns a line
NextExc(a) ==
    IF a.closed THEN "ValueError"
    ELSE IF a.lines = <<>> THEN "StopIteration"
    ELSE ""

\* Application.getNextRow: the row returned or the exception raised, and the
\* Application afterwards (the line is consumed, currRow counts the lines
\* that began with ':')
GetNextRow(a) ==
    IF NextExc(a) # ""
    THEN [exc |-> NextExc(a), addr |-> 0, data |-> <<>>, app |-> a]
    ELSE LET line == Head(a.lines)
             read == [a EXCEPT !.lines = Tail(a.lines)]
         IN  IF line = <<>> \/ line[1] # ":"
             THEN [exc |-> "InvalidApplicationFile", addr |-> 0, data |-> <<>>, app |-> read]
             ELSE LET counted == [read EXCEPT !.currRow = a.currRow + 1]
                      hex == Strip(Tail(line))
                  IN  IF ~FromHexOk(hex)
                      THEN [exc |-> "ValueError", addr |-> 0, data |-> <<>>, app |-> counted]
                      ELSE IF Len(HexBytes(hex)) < 4
                      THEN [exc |-> "struct.error", addr |-> 0, data |-> <<>>, app |-> counted]
                      ELSE [exc |-> "", addr |-> UnpackU32(SubSeq(HexBytes(hex), 1, 4)),
                            data |-> SubSeq(HexBytes(hex), 5, Len(HexBytes(hex))),
                            app |-> counted]

\* Application.close
Close(a) == [a EXCEPT !.closed = TRUE]

\* data lines of the images
Line2 == <<":", "0", "0", "0", "0", "1", "0", "0", "0", "0", "8", "A", "B">>
Line6 == <<":", "0", "0", "1", "0", "0", "0", "0", "0", "0", "1", "0", "2",
           "0", "3", "0", "4", "0", "5", "f", "F">>
Line0 == <<":", "0", "0", "2", "0", "0", "0", "0", "0">>
Line26 == <<":", "0", "0", "2", "0", "0", "0", "0", "0", "1", "0", "1", "1",
            "1", "2", "1", "3", "1", "4", "1", "5", "1", "6", "1", "7", "1",
            "8", "1", "9", "1", "A", "1", "B", "1", "C", "1", "D", "1", "E",
            "1", "F", "2", "0", "2", "1", "2", "2", "2", "3", "2", "4", "2",
            "5", "2", "6", "2", "7", "2", "8", "2", "9">>
LineShort == <<":", "0", "0", "0", "0">>
LineNoColon == <<"0", "0", "0", "0", "1", "0", "0", "0", "0", "8", "A", "B">>
LineBadHex == <<":", "0", "0", "0", "0", "1", "0", "0", "0", "G", "8">>
Line2Trailing == <<":", "0", "0", "0", "0", "1", "0", "0", "0", "0", "8",
                   "A", "B", " ", " ">>
Line2Spaced == <<":", "0", "0", " ", "0", "0", " ", "1", "0", " ", "0", "0",
                 " ", "0", "8", " ", "A", "B">>
Line2Tab == <<":", " ", "0", "0", "0", "0", "1", "0", "0", "0", "0", "8",
              "A", "B", "\t">>

Images ==
    { <<>>, <<Line2>>, <<Line6, Line2>>, <<Line2, Line6, Line2>>,
      <<Line2, Line0, Line2>>, <<Line2, LineNoColon, Line2>>, <<LineBadHex, Line2>>,
      <<Line26>>, <<Line2, LineShort, Line6>>, <<Line2Trailing, Line6>> }

\* str.endswith
EndsWith(cs, suffix) ==
    /\ Len(cs) >= Len(suffix)
    /\ SubSeq(cs, Len(cs) - Len(suffix) + 1, Len(cs)) = suffix

\* str.split(sep): the pieces between the separators
RECURSIVE Split(_, _)
Split(cs, sep) ==
    IF \A i \in DOMAIN cs : cs[i] # sep THEN <<cs>>
    ELSE LET i == CHOOSE k \in DOMAIN cs : cs[k] = sep /\ \A j \in 1..(k - 1) : cs[j] # sep
         IN  <<SubSeq(cs, 1, i - 1)>> \o Split(SubSeq(cs, i + 1, Len(cs)), sep)

\* the number written by the digits in the base
RECURSIVE DigitsVal(_, _)
DigitsVal(cs, base) ==
    IF cs = <<>> THEN 0
    ELSE base * DigitsVal(SubSeq(cs, 1, Len(cs) - 1), base) + HexVal(cs[Len(cs)])

\* int(text, 0), the text after white space and sign: the base its prefix
\* 0x, 0o or 0b names, else 10
IntBase(u) ==
    IF Len(u) < 2 \/ u[1] # "0" THEN 10
    ELSE IF u[2] \in {"x", "X"} THEN 16
    ELSE IF u[2] \in {"o", "O"} THEN 8
    ELSE IF u[2] \in {"b", "B"} THEN 2
    ELSE 10

\* int(text, 0): the digits after the prefix; one underscore may follow the
\* prefix
IntDigits(u) ==
    IF IntBase(u) = 10 THEN u
    ELSE IF Len(u) >= 3 /\ u[3] = "_" THEN SubSeq(u, 4, Len(u))
    ELSE SubSeq(u, 3, Len(u))

\* int(text, 0): digits of the base with single underscores between them
IntWellFormed(v, base) ==
    /\ v # <<>>
    /\ v[1] # "_"
    /\ v[Len(v)] # "_"
    /\ \A i \in DOMAIN v :
          \/ v[i] = "_" /\ (i > 1 => v[i - 1] # "_")
          \/ v[i] \in HexDigits /\ HexVal(v[i]) < base

IsIntDigit(c) == c # "_"

\* int(text, 0) on text without white space and sign: a decimal number other
\* than 0 has no leading zero
ParseUnsigned(u) ==
    IF ~IntWellFormed(IntDigits(u), IntBase(u)) THEN [ok |-> FALSE, val |-> 0]
    ELSE IF /\ IntBase(u) = 10
            /\ u[1] = "0"
            /\ DigitsVal(SelectSeq(IntDigits(u), IsIntDigit), 10) # 0
    THEN [ok |-> FALSE, val |-> 0]
    ELSE [ok |-> TRUE,
          val |-> DigitsVal(SelectSeq(IntDigits(u), IsIntDigit), IntBase(u))]

\* int(text, 0) after the white space is removed: an optional sign, then the
\* number
ParseSigned(t) ==
    IF t = <<>> THEN [ok |-> FALSE, val |-> 0]
    ELSE IF t[1] = "+" THEN ParseUnsigned(Tail(t))
    ELSE IF t[1] = "-"
    THEN [ok |-> ParseUnsigned(Tail(t)).ok, val |-> 0 - ParseUnsigned(Tail(t)).val]
    ELSE ParseUnsigned(t)

\* int(text, 0) on ASCII text: white space around, a sign, the prefix 0x, 0o
\* or 0b (else decimal), then the digits. ok: the value is returned, else
\* ValueError. The numbers of the model are below 2^31.
ParseInt0(cs) == ParseSigned(StripOf(cs, AsciiWhiteSpace))

\* the extension __init__ asks for
Extension == <<".", "c", "y", "a", "c", "d", "2">>

AppInfoLabel == <<"@", "A", "P", "P", "I", "N", "F", "O">>

\* a mutant: the count is one more than the lines of the file
GetNumLinesOneMore(lines) == Len(lines) + 1

\* Application._getNumLines
GetNumLines(lines) == Len(lines)

OpenFailed(exc) == [exc |-> exc, app |-> NoApplication]

\* Application.getHeader: the exception raised ("": none) and the
\* Application afterwards: the line is consumed, the fields unpacked with
\* "<BIBBBI" are assigned when the line decodes to 12 bytes
GetHeader(a) ==
    IF NextExc(a) # "" THEN [exc |-> NextExc(a), app |-> a]
    ELSE LET header == Strip(Head(a.lines))
             read == [a EXCEPT !.lines = Tail(a.lines)]
             h == HexBytes(header)
         IN  IF ~FromHexOk(header) THEN [exc |-> "ValueError", app |-> read]
             ELSE IF Len(h) # 12 THEN [exc |-> "InvalidApplicationFile", app |-> read]
             ELSE [exc |-> "",
                   app |-> [read EXCEPT !.fileVersion = h[1],
                                        !.siliconID = UnpackU32(SubSeq(h, 2, 5)),
                                        !.siliconRevision = h[6],
                                        !.checksumType = h[7],
                                        !.appID = h[8],
                                        !.productID = UnpackU32(SubSeq(h, 9, 12))]]

\* Application.getAppInfo: the exception raised and the Application
\* afterwards; line 385 assigns the two texts, lines 386 and 387 replace
\* them by their numbers one after the other
GetAppInfo(a) ==
    IF NextExc(a) # "" THEN [exc |-> NextExc(a), app |-> a]
    ELSE LET appinfo == Split(Strip(Head(a.lines)), ":")
             read == [a EXCEPT !.lines = Tail(a.lines)]
         IN  IF appinfo[1] # AppInfoLabel
             THEN [exc |-> "InvalidApplicationFile", app |-> read]
             ELSE IF Len(appinfo) < 2 THEN [exc |-> "IndexError", app |-> read]
             ELSE LET meta == Split(appinfo[2], ",")
                  IN  IF Len(meta) # 2 THEN [exc |-> "ValueError", app |-> read]
                      ELSE LET texts == [read EXCEPT !.startAddr = meta[1],
                                                     !.length = meta[2]]
                               start == ParseInt0(meta[1])
                               length == ParseInt0(meta[2])
                           IN  IF ~start.ok THEN [exc |-> "ValueError", app |-> texts]
                               ELSE IF ~length.ok
                               THEN [exc |-> "ValueError",
                                     app |-> [texts EXCEPT !.startAddr = start.val]]
                               ELSE [exc |-> "",
                                     app |-> [texts EXCEPT !.startAddr = start.val,
                                                           !.length = length.val]]

\* Application.__init__: the exception raised, or the object constructed
OpenApplication(name, lines) ==
    IF ~EndsWith(name, Extension) THEN OpenFailed("InvalidFileType")
    ELSE LET opened == [NoApplication EXCEPT !.lines = lines,
                                             !.numRows = GetNumLines(lines)]
             hd == GetHeader(opened)
         IN  IF hd.exc # "" THEN OpenFailed(hd.exc)
             ELSE LET info == GetAppInfo([hd.app EXCEPT !.numRows = @ - 1])
                  IN  IF info.exc # "" THEN OpenFailed(info.exc)
                      ELSE [exc |-> "",
                            app |-> [info.app EXCEPT !.numRows = @ - 1, !.currRow = 0]]

\* lines and names of the files
HeaderLine == <<"0", "1", "0", "E", "3", "4", "1", "1", "1", "E", "2", "1",
                "0", "0", "0", "1", "0", "4", "0", "3", "0", "2", "0", "1">>
Header11 == <<"0", "1", "0", "E", "3", "4", "1", "1", "1", "E", "2", "1",
              "0", "0", "0", "1", "0", "4", "0", "3", "0", "2">>
Header13 == <<"0", "1", "0", "E", "3", "4", "1", "1", "1", "E", "2", "1",
              "0", "0", "0", "1", "0", "4", "0", "3", "0", "2", "0", "1",
              "0", "0">>
HeaderBadHex == <<"0", "1", "0", "E", "3", "4", "1", "1", "1", "E", "2", "1",
                  "0", "0", "0", "1", "0", "4", "0", "3", "0", "2", "0", "G">>
AppInfoLine == <<"@", "A", "P", "P", "I", "N", "F", "O", ":", "0", "x", "1",
               "0", "0", "0", "0", "0", "0", "0", ",", "0", "x", "1", "0",
               "0", "0">>
AppInfoDecimal == <<"@", "A", "P", "P", "I", "N", "F", "O", ":", "2", "6", "8",
                  "4", "3", "5", "4", "5", "6", ",", "4", "0", "9", "6">>
AppInfoBadLabel == <<"@", "A", "P", "P", "I", "N", "F", "0", ":", "0", "x", "1",
                   "0", "0", "0", "0", "0", "0", "0", ",", "0", "x", "1", "0",
                   "0", "0">>
AppInfoNoColon == <<"@", "A", "P", "P", "I", "N", "F", "O">>
AppInfoOneValue == <<"@", "A", "P", "P", "I", "N", "F", "O", ":", "0", "x", "1",
                   "0", "0", "0", "0", "0", "0", "0">>

HeaderTab == <<"0", "1", "0", "E", "3", "4", "1", "1", "1", "E", "2", "1",
               "0", "0", "0", "1", "0", "4", "0", "3", "0", "2", "0", "1",
               "\t">>
HeaderSpaced == <<"0", "1", " ", "0", "E", " ", "3", "4", " ", "1", "1", " ",
                  "1", "E", " ", "2", "1", " ", "0", "0", " ", "0", "1", " ",
                  "0", "4", " ", "0", "3", " ", "0", "2", " ", "0", "1">>
AppInfoBinOct == <<"@", "A", "P", "P", "I", "N", "F", "O", ":", "0", "b",
                   "1", "0", "1", ",", "0", "o", "1", "7">>
AppInfoNegative == <<"@", "A", "P", "P", "I", "N", "F", "O", ":", "-", "1",
                     ",", "1", "6">>
AppInfoSpaced == <<"@", "A", "P", "P", "I", "N", "F", "O", ":", " ", "0",
                   "x", "1", "0", ",", " ", "0", "x", "2", "0">>
AppInfoUnderscore == <<"@", "A", "P", "P", "I", "N", "F", "O", ":", "0", "x",
                       "_", "1", "0", ",", "1", "_", "0", "0", "0">>
AppInfoBadLength == <<"@", "A", "P", "P", "I", "N", "F", "O", ":", "0", "x",
                      "1", "0", ",", "0", "1", "0">>
AppInfoBadStart == <<"@", "A", "P", "P", "I", "N", "F", "O", ":", "0", "x",
                     ",", "1", "6">>

GoodName == <<"f", "w", ".", "c", "y", "a", "c", "d", "2">>

FileNames == {GoodName, Extension, <<"f", "w", ".", "c", "y", "a", "d", "c", "2">>,
              <<"c", "y", "a", "c", "d", "2">>}

FileContents ==
    { <<>>, <<HeaderLine>>, <<HeaderLine, AppInfoLine>>,
      <<HeaderLine, AppInfoLine, Line2>>,
      <<HeaderLine, AppInfoDecimal, Line6, Line2>>,
      <<HeaderLine, AppInfoLine, Line2, Line6, Line0>>,
      <<Header11, AppInfoLine, Line2>>, <<Header13, AppInfoLine, Line2>>,
      <<Header11>>, <<HeaderBadHex, AppInfoLine>>,
      <<HeaderLine, AppInfoBadLabel, Line2>>, <<HeaderLine, AppInfoNoColon, Line2>>,
      <<HeaderLine, AppInfoOneValue, Line2>>, <<HeaderLine, <<>>, Line2>>,
      <<HeaderLine, AppInfoLine, Line2, LineNoColon, Line2>>,
      <<HeaderLine, AppInfoLine, LineBadHex, Line2>>,
      <<HeaderLine, AppInfoLine, Line26>>, <<HeaderLine, AppInfoLine, Line0>>,
      <<HeaderLine, AppInfoLine, Line6, Line26, Line2, Line6>>,
      <<HeaderTab, AppInfoLine, Line2>>, <<HeaderSpaced, AppInfoSpaced, Line2Spaced>>,
      <<HeaderLine, AppInfoBinOct, Line2>>, <<HeaderLine, AppInfoNegative, Line2>>,
      <<HeaderLine, AppInfoUnderscore, Line2Trailing, Line2>>,
      <<HeaderLine, AppInfoBadLength, Line2>>, <<HeaderLine, AppInfoBadStart, Line2>>,
      <<HeaderLine, AppInfoLine, Line2Tab, HeaderLine, AppInfoDecimal, Line6>>,
      <<HeaderLine, AppInfoLine, AppInfoBadLength, AppInfoBadStart>> }

\* the most getNextRow calls made on one Application
MaxRowCalls == 4

\* the most getHeader and getAppInfo calls made on a constructed Application
MaxMetaCalls == 1

FileOff ==
    /\ fileName = <<>>
    /\ fileLines = <<>>
    /\ appSt = "off"
    /\ openExc = ""
    /\ fapp = NoApplication
    /\ rowsOut = <<>>
    /\ rowExc = ""
    /\ nRowCalls = 0
    /\ metaExc = ""
    /\ nMetaCalls = 0

MaxDataLengths == {2, 4, 512}

-----------------------------------------------------------------------------
(* Target.updateFirmware *)

\* a mutant: the short chunk is sent first
RowChunksShortFirst(rowData, maxLen) == SlicesShortFirst(rowData, maxLen)

\* updateFirmware line 173
RowChunks(rowData, maxLen) == Slices(rowData, maxLen)

\* a mutant: the checksum is computed after the split, on the last chunk
RowChecksumOfLastChunk(rowData, maxLen) ==
    IF rowData = <<>> THEN Crc32c(rowData)
    ELSE Crc32c(Slices(rowData, maxLen)[Len(Slices(rowData, maxLen))])

\* updateFirmware line 170: crc32cFunc(rowData), before rowData is split
RowChecksum(rowData, maxLen) == Crc32c(rowData)

\* a mutant: a HostError of a command is swallowed and the session goes on
PropagatesExceptHostError(r) == r.kind \notin {"ok", "none", "HostError"}

\* the exception a command method raised leaves updateFirmware: no call of
\* hostCmd is inside a try
Propagates(r) == r.kind \notin {"ok", "none"}

\* start addresses of the app-info line of the images
StartAddrs == {StartAddr, -1}

UpdateInit ==
    /\ pc = "start"
    /\ image \in Images
    /\ \E start \in StartAddrs : app = [OpenedApp(image) EXCEPT !.startAddr = start]
    /\ maxDataLength \in MaxDataLengths
    /\ fwImgBound \in BOOLEAN
    /\ chunks = <<>>
    /\ row = [addr |-> 0, crc |-> <<0, 0>>]
    /\ error = ""

UpdateOff ==
    /\ pc = "off"
    /\ image = <<>>
    /\ app = OpenedApp(<<>>)
    /\ maxDataLength = 512
    /\ fwImgBound = TRUE
    /\ chunks = <<>>
    /\ row = [addr |-> 0, crc |-> <<0, 0>>]
    /\ error = ""

\* an exception leaves updateFirmware
Fail(exc) ==
    /\ pc' = "failed"
    /\ error' = exc
    /\ UNCHANGED <<engineVars, image, app, maxDataLength, fwImgBound, chunks, row>>

\* the blocking calls of DFUProtocol.__init__, by the name pc has while
\* the call waits (lines 82, 85, 244, 247)
ConstructorWaits == {"getCharacteristics", "getDescriptors", "cccdWrite", "cccdRead"}

\* what the CCCD may read back at line 247
CccdValues == {<<1, 0>>, <<0, 0>>}

\* the constructor goes on with the next blocking call, the engine untouched
ConstructorStep(next) ==
    /\ pc' = next
    /\ UNCHANGED <<engineVars, image, app, maxDataLength, fwImgBound, chunks, row, error>>

\* lines 149-150 and 82: hostCmd = cydfu.DFUProtocol(self) calls
\* getCharacteristics
Start ==
    /\ pc = "start"
    /\ ConstructorStep("getCharacteristics")
    /\ UNCHANGED <<codecVars, fileVars>>

\* line 82: getCharacteristics returns; [0] of an empty list is an IndexError
GetCharacteristics ==
    /\ pc = "getCharacteristics"
    /\ \E found \in BOOLEAN :
          IF found THEN ConstructorStep("getDescriptors") ELSE Fail("IndexError")
    /\ UNCHANGED <<codecVars, fileVars>>

\* line 85: getDescriptors returns; [0] of an empty list is an IndexError
GetDescriptors ==
    /\ pc = "getDescriptors"
    /\ \E found \in BOOLEAN :
          IF found THEN ConstructorStep("cccdWrite") ELSE Fail("IndexError")
    /\ UNCHANGED <<codecVars, fileVars>>

\* line 244: the write of 01 00 to the CCCD is answered
CccdWrite ==
    /\ pc = "cccdWrite"
    /\ ConstructorStep("cccdRead")
    /\ UNCHANGED <<codecVars, fileVars>>

\* lines 247-249: the CCCD is read back; HostError unless it reads 01 00
CccdRead ==
    /\ pc = "cccdRead"
    /\ \E cccdValue \in CccdValues :
          IF cccdValue # <<1, 0>> THEN Fail("HostError") ELSE ConstructorStep("constructed")
    /\ UNCHANGED <<codecVars, fileVars>>

\* Delegate.handleNotification called while a blocking call of the
\* constructor waits
NotificationDuringInit ==
    /\ pc \in ConstructorWaits
    /\ \E n \in EarlyNotifications :
          /\ n # delegate
          /\ delegate' = n
    /\ UNCHANGED <<engine, cur, toSend, sent, nWrites, cmdLog, inflight, arriving, reply,
                   result, seqno, dfuInfo, outstanding, replyDue, arrivals, atIssue,
                   acked, heard>>
    /\ UNCHANGED <<pc, image, app, maxDataLength, fwImgBound, chunks, row, error>>
    /\ UNCHANGED <<codecVars, fileVars>>

\* lines 152-154
CallEnterDFU ==
    /\ pc = "constructed"
    /\ Issue(EnterDFU(app.productID))
    /\ pc' = "enterDFU"
    /\ UNCHANGED <<image, app, maxDataLength, fwImgBound, chunks, row, error>>
    /\ UNCHANGED <<codecVars, fileVars>>

\* lines 155-158
AfterEnterDFU ==
    /\ pc = "enterDFU"
    /\ CallerMayEnter(engine)
    /\ IF Propagates(result) THEN Fail(result.kind)
       ELSE /\ Issue(SetApplicationMetadata(app.appID, app.startAddr, app.length))
            /\ pc' = "setApplicationMetadata"
            /\ UNCHANGED <<image, app, maxDataLength, fwImgBound, chunks, row, error>>
    /\ UNCHANGED <<codecVars, fileVars>>

\* lines 185-187, reached by the break of line 167
CallVerifyApplication ==
    IF ~fwImgBound THEN /\ pc' = "failed"
                        /\ error' = "NameError"
                        /\ UNCHANGED engineVars
    ELSE /\ Issue(VerifyApplication(app.appID))
         /\ pc' = "verifyApplication"
         /\ error' = error

\* lines 163-180 from the top of the while loop: the next row is read, its
\* checksum computed, it is cut in chunks and the first command for it called
NextRow ==
    /\ pc \in {"setApplicationMetadata", "programData"}
    /\ CallerMayEnter(engine)
    /\ IF Propagates(result) THEN Fail(result.kind)
       ELSE LET r == GetNextRow(app)
                cs == RowChunks(r.data, maxDataLength)
            IN  /\ app' = r.app
                /\ UNCHANGED <<image, maxDataLength, fwImgBound>>
                /\ IF r.exc # ""
                   THEN /\ CallVerifyApplication
                        /\ UNCHANGED <<chunks, row>>
                   ELSE /\ row' = [addr |-> r.addr, crc |-> RowChecksum(r.data, maxDataLength)]
                        /\ IF cs = <<>>
                           THEN /\ pc' = "failed"
                                /\ error' = "IndexError"
                                /\ UNCHANGED <<engineVars, chunks>>
                           ELSE IF Len(cs) > 1
                           THEN /\ Issue(SendData(cs[1]))
                                /\ chunks' = Tail(cs)
                                /\ pc' = "sendData"
                                /\ error' = error
                           ELSE /\ Issue(ProgramData(row'.addr, row'.crc, cs[1]))
                                /\ chunks' = <<>>
                                /\ pc' = "programData"
                                /\ error' = error
    /\ UNCHANGED <<codecVars, fileVars>>

\* lines 176-180 after a sendData has returned
NextChunk ==
    /\ pc = "sendData"
    /\ CallerMayEnter(engine)
    /\ IF Propagates(result) THEN Fail(result.kind)
       ELSE /\ IF Len(chunks) > 1
               THEN /\ Issue(SendData(Head(chunks)))
                    /\ pc' = "sendData"
               ELSE /\ Issue(ProgramData(row.addr, row.crc, Head(chunks)))
                    /\ pc' = "programData"
            /\ chunks' = Tail(chunks)
            /\ UNCHANGED <<image, app, maxDataLength, fwImgBound, row, error>>
    /\ UNCHANGED <<codecVars, fileVars>>

\* lines 188-195
AfterVerifyApplication ==
    /\ pc = "verifyApplication"
    /\ CallerMayEnter(engine)
    /\ IF Propagates(result) THEN Fail(result.kind)
       ELSE /\ Issue(ExitDFU)
            /\ pc' = "exitDFU"
            /\ UNCHANGED <<image, app, maxDataLength, fwImgBound, chunks, row, error>>
    /\ UNCHANGED <<codecVars, fileVars>>

\* exitDFU has returned: updateFirmware returns
Return ==
    /\ pc = "exitDFU"
    /\ CallerMayEnter(engine)
    /\ IF Propagates(result) THEN Fail(result.kind)
       ELSE /\ pc' = "done"
            /\ UNCHANGED <<engineVars, image, app, maxDataLength, fwImgBound, chunks, row, error>>
    /\ UNCHANGED <<codecVars, fileVars>>

\* update.py line 277, in the script: updateFirmware has returned and the
\* image file is closed
CloseImage ==
    /\ pc = "done"
    /\ fwImgBound
    /\ ~app.closed
    /\ app' = Close(app)
    /\ UNCHANGED <<pc, image, maxDataLength, fwImgBound, chunks, row, error>>
    /\ UNCHANGED <<codecVars, engineVars, fileVars>>

CodecOff ==
    /\ stage = "off"
    /\ cmdIn = 0
    /\ payloadIn = <<>>
    /\ packet = <<>>
    /\ buf = <<>>
    /\ edit = 0
    /\ resp = NoResp
    /\ outcome = NoOutcome
    /\ statusCode = 0
    /\ raised = "not called"

Init == CodecOff /\ EngineInit /\ UpdateInit /\ FileOff

Next ==
    \/ Start
    \/ GetCharacteristics
    \/ GetDescriptors
    \/ CccdWrite
    \/ CccdRead
    \/ NotificationDuringInit
    \/ CallEnterDFU
    \/ AfterEnterDFU
    \/ NextRow
    \/ NextChunk
    \/ AfterVerifyApplication
    \/ Return
    \/ CloseImage
    \/ WriteFragment
    \/ NotificationDuringWrite
    \/ NotificationReceived
    \/ TimedOut

Spec == Init /\ [][Next]_vars

-----------------------------------------------------------------------------
(* The command methods called by any caller, one after the other *)

MaxCalls == 2

Data14 == <<1, 2, 3, 4, 5, 6, 7, 8, 9, 10, 11, 12, 13, 14>>

\* n zero bytes
Zeros(n) == [i \in 1..n |-> 0]

CallMenu ==
    { EnterDFU(ProductID), SyncDFU, ExitDFU, SendData(Data14),
      SendDataWithoutResponse(Data14),
      ProgramData(4096, Crc32c(<<8, 171>>), <<8, 171>>),
      VerifyData(4096, Crc32c(<<8, 171>>), <<8, 171>>),
      EraseData(4096), EraseData(-1), VerifyApplication(AppID),
      SendData(None), SendDataWithoutResponse(Zeros(65536)),
      ProgramData(4096, <<0, 0>>, Zeros(65528)),
      VerifyData(4096, <<0, 0>>, None),
      SetApplicationMetadata(AppID, StartAddr, AppLength), GetMetadata(0, 16) }

CallCommand ==
    /\ CallerMayEnter(engine)
    /\ seqno < MaxCalls
    /\ \E c \in CallMenu : Issue(c)
    /\ UNCHANGED <<codecVars, updateVars, fileVars>>

\* the DFUProtocol is constructed: the delegate holds what it was handed
\* during the construction, if anything
EngineSpecInit ==
    /\ CodecOff
    /\ \E d \in {NoDelegate} \cup EarlyNotifications : EngineAt(d)
    /\ UpdateOff
    /\ FileOff

EngineNext ==
    \/ CallCommand
    \/ WriteFragment
    \/ NotificationDuringWrite
    \/ NotificationReceived
    \/ TimedOut

SpecEngine == EngineSpecInit /\ [][EngineNext]_vars

-----------------------------------------------------------------------------
(* An Application constructed on a file and read row by row *)

AppInit ==
    /\ CodecOff
    /\ EngineInit
    /\ UpdateOff
    /\ fileName \in FileNames
    /\ fileLines \in FileContents
    /\ appSt = "closed"
    /\ openExc = ""
    /\ fapp = NoApplication
    /\ rowsOut = <<>>
    /\ rowExc = ""
    /\ nRowCalls = 0
    /\ metaExc = ""
    /\ nMetaCalls = 0

\* cydfu.Application(fileName)
OpenFile ==
    /\ appSt = "closed"
    /\ LET r == OpenApplication(fileName, fileLines)
       IN  /\ openExc' = r.exc
           /\ fapp' = r.app
           /\ appSt' = IF r.exc = "" THEN "open" ELSE "failed"
    /\ UNCHANGED <<fileName, fileLines, rowsOut, rowExc, nRowCalls, metaExc, nMetaCalls>>
    /\ UNCHANGED <<codecVars, engineVars, updateVars>>

\* one call of getNextRow on the Application
CallGetNextRow ==
    /\ appSt = "open"
    /\ nRowCalls < MaxRowCalls
    /\ LET r == GetNextRow(fapp)
       IN  /\ fapp' = r.app
           /\ rowExc' = r.exc
           /\ rowsOut' = IF r.exc = ""
                         THEN Append(rowsOut, [addr |-> r.addr, data |-> r.data,
                                               line |-> Head(fapp.lines)])
                         ELSE rowsOut
    /\ nRowCalls' = nRowCalls + 1
    /\ UNCHANGED <<fileName, fileLines, appSt, openExc, metaExc, nMetaCalls>>
    /\ UNCHANGED <<codecVars, engineVars, updateVars>>

\* one call of getHeader on the constructed Application
CallGetHeader ==
    /\ appSt = "open"
    /\ nMetaCalls < MaxMetaCalls
    /\ LET r == GetHeader(fapp)
       IN  /\ fapp' = r.app
           /\ metaExc' = r.exc
    /\ nMetaCalls' = nMetaCalls + 1
    /\ UNCHANGED <<fileName, fileLines, appSt, openExc, rowsOut, rowExc, nRowCalls>>
    /\ UNCHANGED <<codecVars, engineVars, updateVars>>

\* one call of getAppInfo on the constructed Application
CallGetAppInfo ==
    /\ appSt = "open"
    /\ nMetaCalls < MaxMetaCalls
    /\ LET r == GetAppInfo(fapp)
       IN  /\ fapp' = r.app
           /\ metaExc' = r.exc
    /\ nMetaCalls' = nMetaCalls + 1
    /\ UNCHANGED <<fileName, fileLines, appSt, openExc, rowsOut, rowExc, nRowCalls>>
    /\ UNCHANGED <<codecVars, engineVars, updateVars>>

\* close() on the constructed Application
CloseFile ==
    /\ appSt = "open"
    /\ fapp' = Close(fapp)
    /\ UNCHANGED <<fileName, fileLines, appSt, openExc, rowsOut, rowExc, nRowCalls,
                   metaExc, nMetaCalls>>
    /\ UNCHANGED <<codecVars, engineVars, updateVars>>

AppNext ==
    \/ OpenFile
    \/ CallGetNextRow
    \/ CallGetHeader
    \/ CallGetAppInfo
    \/ CloseFile

SpecApp == AppInit /\ [][AppNext]_vars

-----------------------------------------------------------------------------
(* The codec exercised alone: encode an input, optionally replace one byte *)
(* of the packet, decode; or decode a raw buffer.                          *)

CodecInit ==
    /\ EngineInit
    /\ UpdateOff
    /\ FileOff
    /\ packet = <<>>
    /\ edit = 0
    /\ resp = NoResp
    /\ outcome = NoOutcome
    /\ raised = "not called"
    /\ \/ /\ stage = "input"
          /\ cmdIn \in CmdVals
          /\ payloadIn \in SeqsUpTo(PayloadBytes, MaxPayloadLen) \cup {None}
          /\ buf = <<>>
          /\ statusCode = 0
       \/ /\ stage = "buffered"
          /\ cmdIn = 0
          /\ payloadIn = <<>>
          /\ buf \in SeqsUpTo(BufBytes, MaxBufLen)
          /\ statusCode = 0
       \/ /\ stage = "status"
          /\ cmdIn = 0
          /\ payloadIn = <<>>
          /\ buf = <<>>
          /\ statusCode \in 0..255

\* _createCmdPacket on an input: the packet, or the exception raised
CreatePacket ==
    /\ stage = "input"
    /\ packet' = CreateCmdPacket(cmdIn, payloadIn)
    /\ buf' = packet'
    /\ stage' = IF CreateCmdPacketExc(payloadIn) = "" THEN "encoded" ELSE "refused"
    /\ raised' = IF CreateCmdPacketExc(payloadIn) = "" THEN raised
                 ELSE CreateCmdPacketExc(payloadIn)
    /\ UNCHANGED <<cmdIn, payloadIn, edit, resp, outcome, statusCode>>
    /\ UNCHANGED <<engineVars, updateVars, fileVars>>

ReplaceByte ==
    /\ stage = "encoded"
    /\ \E i \in 1..Len(packet), b \in ByteVals :
          /\ b # packet[i]
          /\ buf' = [packet EXCEPT ![i] = b]
          /\ edit' = i
    /\ stage' = "buffered"
    /\ UNCHANGED <<cmdIn, payloadIn, packet, resp, outcome, statusCode, raised>>
    /\ UNCHANGED <<engineVars, updateVars, fileVars>>

Decode ==
    /\ stage \in {"encoded", "buffered"}
    /\ resp' = GetResponse(buf)
    /\ outcome' = DecodeReply(buf)
    /\ stage' = "decoded"
    /\ UNCHANGED <<cmdIn, payloadIn, packet, buf, edit, statusCode, raised>>
    /\ UNCHANGED <<engineVars, updateVars, fileVars>>

\* _checkStatusCode on a status byte
CheckStatus ==
    /\ stage = "status"
    /\ raised' = CheckStatusCode(statusCode)
    /\ stage' = "checked"
    /\ UNCHANGED <<cmdIn, payloadIn, packet, buf, edit, resp, outcome, statusCode>>
    /\ UNCHANGED <<engineVars, updateVars, fileVars>>

CodecNext == CreatePacket \/ ReplaceByte \/ Decode \/ CheckStatus

SpecCodec == CodecInit /\ [][CodecNext]_vars

-----------------------------------------------------------------------------
(* Claims about updateFirmware (Spec) and the command methods (SpecEngine) *)

\* the line reads as a data row with at least one data byte
DataLine(l) ==
    LET r == GetNextRow(OpenedApp(<<l>>)) IN r.exc = "" /\ r.data # <<>>

\* every data line is a row with data and the app-info numbers fit 32 bits
WellFormedImage ==
    /\ \A i \in DOMAIN image : DataLine(image[i])
    /\ app.startAddr >= 0
    /\ app.length >= 0

Opcodes == [i \in DOMAIN cmdLog |-> cmdLog[i][2]]

\* enterDFU, setApplicationMetadata, then sendData* programData per row,
\* then verifyApplication, exitDFU
ExpectedOrder ==
    LET ops == Opcodes
        n == Len(ops)
    IN  /\ n >= 4
        /\ cmdLog[1] = CreateCmdPacket(56, PackU32(app.productID))
        /\ cmdLog[2] = CreateCmdPacket(76, <<app.appID>> \o PackU32(app.startAddr)
                                              \o PackU32(app.length))
        /\ \A i \in 3..(n - 2) : ops[i] \in {55, 73}
        /\ Cardinality({i \in 3..(n - 2) : ops[i] = 73}) = Len(image)
        /\ (n > 4) => ops[n - 2] = 73
        /\ cmdLog[n - 1] = CreateCmdPacket(49, <<app.appID>>)
        /\ cmdLog[n] = CreateCmdPacket(59, <<>>)

\* C1: over a well-formed image, with every reply-expecting command
\* acknowledged with status 0x00 and a payload the command can unpack,
\* updateFirmware writes enterDFU, setApplicationMetadata, for each row
\* sendData* and one programData, verifyApplication, exitDFU, nothing else,
\* and completes without error.
C1_CommandSequence ==
    (pc \in {"done", "failed"} /\ seqno > 0 /\ acked /\ WellFormedImage) =>
        /\ pc = "done"
        /\ error = ""
        /\ ExpectedOrder

CommandFailed == engine = "Idle" /\ seqno > 0 /\ result.kind \notin {"ok", "none"}

\* C2: when a command called by updateFirmware fails, updateFirmware stops
\* there: the failure leaves it as its exception and nothing more is written
\* to the transport.
C2_StopsAtFirstFailure ==
    [][CommandFailed =>
          /\ pc' = "failed"
          /\ error' = result.kind
          /\ nWrites' = nWrites
          /\ cmdLog' = cmdLog
          /\ engine' = "Idle"]_vars

C2_Witness ==
    /\ pc = "failed"
    /\ error = "DFUErrorVerify"
    /\ cur.name = "programData"
    /\ Len(cmdLog) = 4
    /\ nWrites >= 5

\* a reply-expecting command that made its packet has ended
ReplyCommandEnded ==
    engine = "Idle" /\ cur.name # "none" /\ ExpectsReply(cur.name) /\ cur.exc = ""

\* C3: when the well-formed reply to a reply-expecting command arrives on
\* the command characteristic before the deadline, the command ends with
\* the payload or the error of a decoded status, never with "not received",
\* whatever other notifications arrive before it.
C3_ReplyInTimeIsDecoded ==
    (ReplyCommandEnded /\ replyDue) =>
        /\ reply.msg # "not received"
        /\ reply.kind \in {"ok", "UnexpectedError", "DFUErrorVerify", "DFUErrorLength",
                           "DFUErrorData", "DFUErrorCmd", "DFUErrorChecksum",
                           "DFUErrorRow", "DFUErrorRowAccess", "DFUErrorUnknown"}

\* C4: a reply-expecting command that fails has written its packet exactly
\* once, has nothing left to write and has left the engine idle; every
\* command called starts a send of its own packet; with no notification
\* before the deadline the command fails with "not received".
C4_FailureSendsOnce ==
    /\ (ReplyCommandEnded /\ result.kind # "ok") =>
          /\ sent = Fragments(CreateCmdPacket(cur.cmd, cur.payload), 20)
          /\ toSend = <<>>
          /\ outstanding = 0
    /\ (engine = "Sending") =>
          sent \o toSend = Fragments(CreateCmdPacket(cur.cmd, cur.payload), 20)
    /\ (ReplyCommandEnded /\ arrivals = 0) =>
          /\ reply = Raised("HostError", "not received")
          /\ result = reply

C4_Witness ==
    /\ ReplyCommandEnded
    /\ seqno = 2
    /\ cur.name = "getMetadata"
    /\ arrivals = 0
    /\ delegate.handle = "cmd"
    /\ delegate.data = CreateCmdPacket(2, <<>>)
    /\ result.msg = "not received"

\* a step of a fire-and-forget command: it is called, or it is in a write of
\* its _sendPacket (the write returns, or the delegate is called inside it)
FireAndForgetStep ==
    /\ cur'.name \in FireAndForget
    /\ seqno' # seqno \/ engine = "Sending"

\* what C5 holds of the states of a fire-and-forget command: it never waits,
\* hears and decodes nothing, raises no timeout or status error (the only
\* thing raised is the refusal of a payload no packet can carry, before
\* anything is written), and has written exactly its packet when it returns
FireAndForgetStates ==
    (cur.name \in FireAndForget) =>
        /\ engine # "AwaitingReply"
        /\ outstanding = 0
        /\ heard = NoNotification
        /\ reply = NoOutcome
        /\ \/ result \in {NoOutcome, ReturnedNone}
           \/ /\ cur.exc \in {"HostError", "struct.error"}
              /\ result.kind = cur.exc
              /\ result.msg # "not received"
              /\ sent = <<>>
        /\ (engine = "Idle" /\ cur.exc = "") =>
              /\ result = ReturnedNone
              /\ Concat(sent) = <<1, cur.cmd>> \o PackU16(Len(cur.payload))
                                   \o cur.payload
                                   \o SubSeq(Concat(sent), Len(cur.payload) + 5,
                                             Len(cur.payload) + 7)
              /\ Len(Concat(sent)) = Len(cur.payload) + 7
              /\ toSend = <<>>

\* C5 as stated: syncDFU, exitDFU and sendDataWithoutResponse write their
\* packet and return without waiting, without a timeout or status error, and
\* no notification is consumed while they run: no step of theirs takes a
\* notification out of flight or stores one in the delegate.
C5_NoNotificationConsumed ==
    /\ []FireAndForgetStates
    /\ [][FireAndForgetStep => (delegate' = delegate /\ inflight' = inflight)]_vars

\* C5, amended: syncDFU, exitDFU and sendDataWithoutResponse write their
\* packet and return without waiting for a notification, without decoding
\* anything and without a timeout or status error; the peripheral sends
\* nothing in answer, and a notification leaves flight only while one of
\* their writes is in progress, handed to the delegate inside that write.
C5_FireAndForget ==
    /\ []FireAndForgetStates
    /\ [][FireAndForgetStep =>
              \/ delegate' = delegate /\ inflight' = inflight
              \/ /\ engine = "Sending" /\ toSend # <<>> /\ inflight # <<>>
                 /\ delegate' = [handle |-> Head(inflight).handle,
                                 data |-> Head(inflight).data]
                 /\ inflight' = Tail(inflight)
                 /\ UNCHANGED <<engine, cur, toSend, sent, nWrites, seqno, heard,
                                reply, result, outstanding>>]_vars

\* sendDataWithoutResponse has returned, and inside one of its two writes
\* the delegate was handed a notification of another characteristic
C5_Witness ==
    /\ engine = "Idle"
    /\ cur.name = "sendDataWithoutResponse"
    /\ seqno = 2
    /\ Len(sent) = 2
    /\ atIssue = "cmd"
    /\ delegate.handle = "other"
    /\ result = ReturnedNone

\* C6: at most one request is outstanding, and nothing is written to the
\* transport while a reply-expecting command awaits its reply.
C6_OneOutstanding ==
    /\ [](outstanding <= 1 /\ (engine = "AwaitingReply" <=> outstanding = 1))
    /\ [][outstanding > 0 => nWrites' = nWrites]_vars

C6_Witness ==
    /\ engine = "AwaitingReply"
    /\ outstanding = 1
    /\ cur.name = "programData"
    /\ Len(cmdLog) = 5
    /\ inflight # <<>>

-----------------------------------------------------------------------------
(* Claims about the rows sent by updateFirmware (Spec) *)

\* the payload of a packet on the transport
PayloadOf(pkt) == SubSeq(pkt, 5, Len(pkt) - 3)

\* the programData of the current row is on the transport
RowSent == pc = "programData" /\ engine # "Sending"

\* bytes of the line the current row was read from
RowBytes == HexBytes(Strip(Tail(image[app.currRow])))
RowData == SubSeq(RowBytes, 5, Len(RowBytes))

\* the packets written for the current row: those after the last packet
\* before the programData that is not a sendData
RowPackets ==
    LET n == Len(cmdLog)
        before == {i \in 1..(n - 1) : cmdLog[i][2] # 55}
        last == CHOOSE i \in before : \A j \in before : j <= i
    IN  SubSeq(cmdLog, last + 1, n)

\* the data bytes a packet of a row carries
ChunkOf(pkt) ==
    IF pkt[2] = 73 THEN SubSeq(PayloadOf(pkt), 9, Len(PayloadOf(pkt)))
    ELSE PayloadOf(pkt)

Row1300 == [i \in 1..1300 |-> i % 256]
Row1300Sizes == [i \in DOMAIN RowChunks(Row1300, 512) |-> Len(RowChunks(Row1300, 512)[i])]

\* C12: a row of L >= 1 data bytes is sent as ceil(L/M) commands, M being
\* maxDataLength: sendData commands of exactly M bytes, then one programData
\* with the remaining 1..M bytes; the chunks in send order make up the row
\* data (1300 bytes with M = 512: 512, 512, 276).
C12_Chunking ==
    /\ (RowSent /\ Len(RowData) >= 1) =>
          LET L == Len(RowData)
              M == maxDataLength
              k == Len(RowPackets)
          IN  /\ k = (L + M - 1) \div M
              /\ \A i \in 1..(k - 1) :
                    /\ RowPackets[i][2] = 55
                    /\ Len(ChunkOf(RowPackets[i])) = M
              /\ RowPackets[k][2] = 73
              /\ Len(ChunkOf(RowPackets[k])) = L - (k - 1) * M
              /\ Len(ChunkOf(RowPackets[k])) \in 1..M
              /\ Concat([i \in 1..k |-> ChunkOf(RowPackets[i])]) = RowData
    /\ Row1300Sizes = <<512, 512, 276>>

C12_Witness ==
    /\ RowSent
    /\ engine = "Idle"
    /\ maxDataLength = 4
    /\ Len(RowData) = 6
    /\ Len(RowPackets) = 2
    /\ Len(ChunkOf(RowPackets[2])) = 2

\* C13: the checksum in the programData of a row is the CRC-32C of the
\* whole row's data, whatever maxDataLength is, and the address in it is
\* the row's address.
C13_ChecksumOfWholeRow ==
    RowSent =>
        LET pl == PayloadOf(cmdLog[Len(cmdLog)])
        IN  /\ cmdLog[Len(cmdLog)][2] = 73
            /\ SubSeq(pl, 1, 4) = SubSeq(RowBytes, 1, 4)
            /\ SubSeq(pl, 5, 8) = PackCrc(Crc32c(RowData))
            /\ row.crc = Crc32c(RowData)

C13_Witness ==
    /\ RowSent
    /\ engine = "Idle"
    /\ result = ReturnedNone
    /\ maxDataLength = 2
    /\ Len(RowData) = 6
    /\ Len(RowPackets) = 3
    /\ app.currRow = 2

RECURSIVE WritesFor(_)
WritesFor(pkts) ==
    IF pkts = <<>> THEN 0
    ELSE ((Len(Head(pkts)) + 19) \div 20) + WritesFor(Tail(pkts))

\* C19: a packet of N bytes is written as ceil(N/20) fragments of 1..20
\* bytes, all but the last of 20 bytes, in order, their concatenation being
\* the packet; every fragment is written before the command waits for its
\* reply; maxDataLength has no part in it.
C19_Fragmentation ==
    LET pkt == CreateCmdPacket(cur.cmd, cur.payload)
        N == Len(pkt)
    IN  /\ (cur.name # "none" /\ cur.exc = "") =>
              /\ Concat(sent \o toSend) = pkt
              /\ Len(sent \o toSend) = (N + 19) \div 20
              /\ \A i \in 1..Len(sent \o toSend) :
                    /\ Len((sent \o toSend)[i]) \in 1..20
                    /\ i < Len(sent \o toSend) => Len((sent \o toSend)[i]) = 20
        /\ (engine # "Sending") => toSend = <<>>
        /\ (engine = "Sending") => toSend # <<>>
        /\ nWrites = WritesFor(cmdLog) + (IF engine = "Sending" THEN Len(sent) ELSE 0)

C19_Witness ==
    /\ engine = "AwaitingReply"
    /\ cur.name = "programData"
    /\ maxDataLength = 512
    /\ Len(sent) = 3
    /\ Len(sent[3]) = 1
    /\ toSend = <<>>

\* the programData packets written so far
ProgramDataWritten == Cardinality({i \in DOMAIN cmdLog : cmdLog[i][2] = 73})

\* verifyApplication has been called
VerifyCalled == pc \in {"verifyApplication", "exitDFU", "done"}

\* C22: verifyApplication is called only after every data row has been
\* programmed: by then currRow = numRows and numRows programData commands
\* were written and acknowledged; a row that fails to parse never has the
\* remaining rows skipped and the session go on to verifyApplication.
C22_VerifyAfterAllRows ==
    VerifyCalled =>
        /\ app.currRow = app.numRows
        /\ ProgramDataWritten = app.numRows
        /\ app.lines = <<>>
        /\ \A i \in DOMAIN image : GetNextRow(OpenedApp(<<image[i]>>)).exc = ""

\* the line read last is a row of an address and no data
ZeroDataRowRead ==
    /\ app.currRow >= 1
    /\ Len(image) - Len(app.lines) = app.currRow
    /\ GetNextRow(OpenedApp(<<image[app.currRow]>>)).exc = ""
    /\ GetNextRow(OpenedApp(<<image[app.currRow]>>)).data = <<>>

\* C23: for a row of an address and no data one programData(rowAddr, crc,
\* no data) is called and nothing is raised on its account: the session can
\* only stop there if that command fails.
C23_ZeroDataRow ==
    ZeroDataRowRead =>
        /\ cur.name = "programData"
        /\ cur.payload = SubSeq(RowBytes, 1, 4)
                            \o PackCrc(Crc32c(<<>>))
        /\ error # "IndexError"
        /\ (pc = "failed") => (CommandFailed /\ error = result.kind)

-----------------------------------------------------------------------------
(* Claims about single commands (SpecEngine) *)

\* C17: enterDFU sends productID as 4 little-endian bytes and, on a
\* status-0 reply with a payload of 9 bytes, ends without error having
\* unpacked jtagID from bytes 0..3, deviceRev from byte 4 and dfuSdkVersion
\* from bytes 5..8, all little-endian, with no padding.
C17_EnterDFUDecoding ==
    (ReplyCommandEnded /\ cur.name = "enterDFU") =>
        /\ PayloadOf(Concat(sent)) = <<4, 3, 2, 1>>
        /\ (reply.kind = "ok" /\ Len(reply.value) = 9) =>
              /\ result.kind = "ok"
              /\ dfuInfo.jtagID = reply.value[1] + 256 * reply.value[2]
                                    + 65536 * reply.value[3] + 16777216 * reply.value[4]
              /\ dfuInfo.deviceRev = reply.value[5]
              /\ dfuInfo.dfuSdkVer = reply.value[6] + 256 * reply.value[7]
                                       + 65536 * reply.value[8] + 16777216 * reply.value[9]

\* C18: getMetadata(0, 16) sends the two offsets as little-endian u32 and,
\* on a status-0 reply, returns the payload of the reply unchanged.
C18_GetMetadataReturnsPayload ==
    (ReplyCommandEnded /\ cur.name = "getMetadata") =>
        /\ PayloadOf(Concat(sent)) = <<0, 0, 0, 0, 16, 0, 0, 0>>
        /\ (reply.kind = "ok") =>
              /\ result.kind = "ok"
              /\ result.value = PayloadOf(heard.data)

\* C20: a command that ends with a payload or a device error decoded the
\* bytes of a notification of the command characteristic, received during
\* its own wait; a notification with another handle is never decoded.
C20_DecodesCommandCharacteristicOnly ==
    /\ (ReplyCommandEnded /\ reply.kind \in {"ok"} \cup DFUErrorKinds) =>
          /\ heard # NoNotification
          /\ heard.handle = "cmd"
          /\ delegate = [handle |-> heard.handle, data |-> heard.data]
          /\ reply = DecodeReply(heard.data)
    /\ (ReplyCommandEnded /\ heard # NoNotification /\ heard.handle # "cmd") =>
          reply = Raised("HostError", "not received")

C20_Witness ==
    /\ ReplyCommandEnded
    /\ seqno = 2
    /\ heard.handle = "other"
    /\ IsFrame(heard.data)
    /\ atIssue = "cmd"
    /\ reply.msg = "not received"

\* C21: the reply a command decodes is a notification received during its
\* own wait that answers this very command; the late reply to an earlier
\* command is never turned into the result of a later one.
C21_NoStaleReply ==
    (ReplyCommandEnded /\ reply.kind \in {"ok"} \cup DFUErrorKinds) =>
        /\ heard # NoNotification
        /\ reply = DecodeReply(heard.data)
        /\ heard.re = seqno

-----------------------------------------------------------------------------
(* Claims about the codec (SpecCodec) *)

EncodePath == packet # <<>>

\* C7: decoding the packet made by _createCmdPacket(command, payload) with
\* _getResponse succeeds and gives back the payload, and the command byte in
\* the status position.
C7_RoundTrip ==
    (stage = "decoded" /\ EncodePath /\ edit = 0) =>
        /\ resp.ok
        /\ resp.payload = payloadIn
        /\ resp.status = cmdIn

C7_Witness ==
    /\ stage = "decoded" /\ EncodePath /\ edit = 0
    /\ Len(payloadIn) = 2 /\ payloadIn[1] = 255 /\ cmdIn = 56
    /\ resp.ok

\* C8: a packet is start(0x01) | command | length u16 LE | payload |
\* checksum u16 LE | end(0x17), is payload length + 7 bytes long, and the
\* sum of the bytes from start through the last payload byte plus the
\* checksum is 0 mod 65536 (the checksum is the negated sum mod 65536).
C8_Layout ==
    (stage # "input" /\ EncodePath) =>
        LET n == Len(payloadIn)
            cs == packet[n + 5] + 256 * packet[n + 6]
            covered == SubSeq(packet, 1, n + 4)
        IN  /\ Len(packet) = n + 7
            /\ packet[1] = 1
            /\ packet[2] = cmdIn
            /\ packet[3] = n % 256 /\ packet[4] = n \div 256
            /\ SubSeq(packet, 5, n + 4) = payloadIn
            /\ packet[n + 7] = 23
            /\ cs = (0 - SumBytes(covered)) % 65536
            /\ (SumBytes(covered) + cs) % 65536 = 0

C8_Witness ==
    /\ stage = "encoded" /\ EncodePath
    /\ payloadIn = <<255, 23>> /\ cmdIn = 255

HostErrorResp(r) == ~r.ok /\ r.err \in {"malformed", "currupted"}

\* C9: replacing one byte of a packet other than the two checksum bytes and
\* the end byte by a different value makes _getResponse fail with HostError.
C9_SingleByteDetected ==
    (stage = "decoded" /\ EncodePath /\ edit \in 1..(Len(packet) - 3)) =>
        /\ HostErrorResp(resp)
        /\ outcome.kind = "HostError"

C9_Witness ==
    /\ stage = "decoded" /\ EncodePath
    /\ Len(payloadIn) = 2 /\ edit = 6
    /\ resp.err = "currupted"

\* the frame conditions of the claim, stated on the buffer alone
WellFormedFrame(b) ==
    /\ Len(b) >= 7
    /\ b[1] = 1
    /\ b[Len(b)] = 23
    /\ b[3] + 256 * b[4] = Len(b) - 7
    /\ (SumBytes(SubSeq(b, 1, Len(b) - 3)) + b[Len(b) - 2] + 256 * b[Len(b) - 1]) % 65536 = 0

\* C10: _getResponse returns a Response exactly for the buffers that start
\* with 0x01, end with 0x17, declare the length of their payload and carry
\* the checksum of their bytes; every other buffer fails with HostError and
\* its status byte is never interpreted.
C10_OnlyValidFrames ==
    (stage = "decoded") =>
        /\ resp.ok <=> WellFormedFrame(buf)
        /\ resp.ok => /\ resp.status = buf[2]
                      /\ resp.payload = SubSeq(buf, 5, Len(buf) - 3)
        /\ ~resp.ok => /\ HostErrorResp(resp)
                       /\ outcome.kind = "HostError"
                       /\ outcome.kind \notin DFUErrorKinds \cup {"UnexpectedError"}

C10_Witness ==
    /\ stage = "decoded"
    /\ Len(buf) = 8 /\ buf[1] = 1 /\ buf[8] = 23 /\ buf[3] = 1 /\ buf[4] = 0
    /\ buf[2] = 2
    /\ ~resp.ok
    /\ outcome.kind = "HostError"

\* the status table of the claim
ClaimedStatus(c) ==
    CASE c = 0 -> "None"
      [] c = 2 -> "DFUErrorVerify"
      [] c = 3 -> "DFUErrorLength"
      [] c = 4 -> "DFUErrorData"
      [] c = 5 -> "DFUErrorCmd"
      [] c = 8 -> "DFUErrorChecksum"
      [] c = 10 -> "DFUErrorRow"
      [] c = 11 -> "DFUErrorRowAccess"
      [] c = 15 -> "DFUErrorUnknown"
      [] OTHER -> "UnexpectedError"

UndefinedStatusCodes == {c \in 0..255 : CheckStatusCode(c) = "UnexpectedError"}

\* C11: _checkStatusCode maps each of the 256 status bytes: 0x00 raises
\* nothing, the 8 tabulated codes raise their device error, each of the
\* other 247 raises UnexpectedError, which is none of the device errors and
\* no instance of DFUError; nothing else changes.
C11_StatusMapping ==
    /\ (stage = "checked") =>
          /\ raised = ClaimedStatus(statusCode)
          /\ (raised \in DFUErrorKinds) => IsInstance(raised, "DFUError")
          /\ (raised = "UnexpectedError") =>
                /\ raised \notin DFUErrorKinds
                /\ ~IsInstance(raised, "DFUError")
          /\ outcome = NoOutcome /\ resp = NoResp
    /\ Cardinality(UndefinedStatusCodes) = 247

C11_Witness ==
    /\ stage = "checked"
    /\ statusCode = 16
    /\ raised = "UnexpectedError"

-----------------------------------------------------------------------------
(* Claims about the Application (SpecApp) *)

HexChars == <<"0", "1", "2", "3", "4", "5", "6", "7", "8", "9",
              "A", "B", "C", "D", "E", "F">>

\* the bytes written as upper-case hex digits
RECURSIVE ToHexUpper(_)
ToHexUpper(bs) ==
    IF bs = <<>> THEN <<>>
    ELSE <<HexChars[(Head(bs) \div 16) + 1], HexChars[(Head(bs) % 16) + 1]>>
            \o ToHexUpper(Tail(bs))

Upper(cs) ==
    [i \in DOMAIN cs |-> IF cs[i] \in HexDigits THEN HexChars[HexVal(cs[i]) + 1] ELSE cs[i]]

\* the data line that writes a row: ':' address (little-endian) data
LineOfRow(r) == <<":">> \o ToHexUpper(PackU32(r.addr) \o r.data)

\* every line after the two metadata lines is ':' and at least 4 bytes in hex
WellFormedRows ==
    \A i \in 3..Len(fileLines) :
        /\ fileLines[i] # <<>>
        /\ fileLines[i][1] = ":"
        /\ FromHexOk(Strip(Tail(fileLines[i])))
        /\ Len(HexBytes(Strip(Tail(fileLines[i])))) >= 4

\* the line without its white space
Compact(line) ==
    LET Black(c) == c \notin WhiteSpace IN SelectSeq(line, Black)

\* the hex digits of the line
HexDigitsOf(line) ==
    LET IsHex(c) == c \in HexDigits IN SelectSeq(line, IsHex)

\* the Application is open and only getNextRow was called on it
OnlyRowCalls == appSt = "open" /\ nMetaCalls = 0 /\ ~fapp.closed

\* the lines getNextRow has read after n calls
RowLinesRead ==
    SubSeq(fileLines, 3,
           2 + (IF nRowCalls <= fapp.numRows THEN nRowCalls ELSE fapp.numRows))

\* a line that passes the test of line 394
BeginsWithColon(line) == line # <<>> /\ line[1] = ":"

\* a line getNextRow returns a row for
DecodesToRow(line) ==
    /\ BeginsWithColon(line)
    /\ FromHexOk(Strip(Tail(line)))
    /\ Len(HexBytes(Strip(Tail(line)))) >= 4

\* C14 as stated: numRows is the number of lines minus 2 and stays so; on
\* any opened image, after any sequence of getNextRow calls, currRow is
\* between 0 and numRows and is the number of rows returned so far, the
\* first numRows calls return the rows in file order and the next call
\* raises StopIteration.
C14_CurrRowIsRowsReturned ==
    (appSt = "open") =>
        /\ fapp.numRows = Len(fileLines) - 2
        /\ 0 <= fapp.currRow /\ fapp.currRow <= fapp.numRows
        /\ OnlyRowCalls =>
              /\ fapp.currRow = Len(rowsOut)
              /\ Len(rowsOut) = IF nRowCalls <= fapp.numRows THEN nRowCalls
                                ELSE fapp.numRows
              /\ \A i \in DOMAIN rowsOut :
                    /\ rowsOut[i].line = fileLines[i + 2]
                    /\ LineOfRow(rowsOut[i]) = Upper(Compact(fileLines[i + 2]))
              /\ (nRowCalls <= fapp.numRows) => rowExc = ""
              /\ (nRowCalls > fapp.numRows) => rowExc = "StopIteration"

\* C14, amended: numRows is the number of lines minus 2 and stays so; after
\* any sequence of getNextRow calls currRow is between 0 and numRows and is
\* the number of lines read so far that begin with ':', whether or not they
\* decoded; the rows returned are those of the lines read that decode, in
\* file order; once numRows lines are read every call raises StopIteration;
\* and on a file whose rows are well formed currRow is the number of rows
\* returned and the first numRows calls each return a row.
C14_RowSequencing ==
    (appSt = "open") =>
        /\ fapp.numRows = Len(fileLines) - 2
        /\ 0 <= fapp.currRow /\ fapp.currRow <= fapp.numRows
        /\ OnlyRowCalls =>
              /\ fapp.currRow = Len(SelectSeq(RowLinesRead, BeginsWithColon))
              /\ Len(rowsOut) = Len(SelectSeq(RowLinesRead, DecodesToRow))
              /\ \A i \in DOMAIN rowsOut :
                    /\ rowsOut[i].line = SelectSeq(RowLinesRead, DecodesToRow)[i]
                    /\ LineOfRow(rowsOut[i]) = Upper(Compact(rowsOut[i].line))
              /\ (nRowCalls > fapp.numRows) => rowExc = "StopIteration"
              /\ WellFormedRows =>
                    /\ fapp.currRow = Len(rowsOut)
                    /\ Len(rowsOut) = IF nRowCalls <= fapp.numRows THEN nRowCalls
                                      ELSE fapp.numRows
                    /\ \A i \in DOMAIN rowsOut : rowsOut[i].line = fileLines[i + 2]
                    /\ (nRowCalls <= fapp.numRows) => rowExc = ""

\* two calls on an image whose first data line does not decode: the first
\* raised and was counted, the second returned a row
C14_Witness ==
    /\ OnlyRowCalls
    /\ fileLines = <<HeaderLine, AppInfoLine, LineBadHex, Line2>>
    /\ nRowCalls = 2
    /\ fapp.currRow = 2
    /\ Len(rowsOut) = 1
    /\ rowExc = ""

RowJustReturned == appSt = "open" /\ nRowCalls >= 1 /\ rowExc = ""

\* the byte written by the i-th pair of hex digits
PairVal(hex, i) == DigitsVal(SubSeq(hex, 2 * i - 1, 2 * i), 16)

\* C15 as stated: the address of a row is the number its first 8 hex digits
\* write, the data are the bytes after them: :0000100008AB gives address
\* 0x00001000 and data 08 AB.
C15_LiteralAddress ==
    RowJustReturned =>
        LET r == rowsOut[Len(rowsOut)]
            hex == HexDigitsOf(r.line)
        IN  /\ r.addr = DigitsVal(SubSeq(hex, 1, 8), 16)
            /\ r.data = [i \in 1..((Len(hex) \div 2) - 4) |-> PairVal(hex, i + 4)]
            /\ (r.line = Line2) => (r.addr = 4096 /\ r.data = <<8, 171>>)

\* C15 amended: the address of a row is the little-endian value of the
\* first 4 bytes its hex digits write, the data are the bytes after them:
\* :0000100008AB gives address 0x00100000 and data 08 AB.
C15_RowDecoding ==
    RowJustReturned =>
        LET r == rowsOut[Len(rowsOut)]
            hex == HexDigitsOf(r.line)
        IN  /\ r.addr = PairVal(hex, 1) + 256 * PairVal(hex, 2)
                          + 65536 * PairVal(hex, 3) + 16777216 * PairVal(hex, 4)
            /\ r.data = [i \in 1..((Len(hex) \div 2) - 4) |-> PairVal(hex, i + 4)]
            /\ (r.line = Line2) => (r.addr = 1048576 /\ r.data = <<8, 171>>)

C15_Witness ==
    /\ RowJustReturned
    /\ rowsOut[Len(rowsOut)].line = Line2
    /\ rowsOut[Len(rowsOut)].addr = 1048576
    /\ rowsOut[Len(rowsOut)].data = <<8, 171>>

\* the header line is hex and writes 12 bytes
HeaderGood ==
    /\ fileLines # <<>>
    /\ FromHexOk(Strip(fileLines[1]))
    /\ Len(HexDigitsOf(fileLines[1])) = 24

\* the header line is hex and writes another number of bytes
HeaderNot12Bytes ==
    /\ fileLines # <<>>
    /\ FromHexOk(Strip(fileLines[1]))
    /\ Len(HexDigitsOf(fileLines[1])) # 24

\* the app-info line does not begin with the label @APPINFO up to a ':'
LabelWrong ==
    /\ HeaderGood
    /\ Len(fileLines) >= 2
    /\ LET l == Strip(fileLines[2])
       IN  ~ /\ Len(l) >= 8
             /\ SubSeq(l, 1, 8) = AppInfoLabel
             /\ (Len(l) = 8 \/ l[9] = ":")

\* C16: Application(...) raises InvalidFileType for a name without the
\* extension, and InvalidApplicationFile when the header is not 12 bytes in
\* hex, when the label of the app-info line is not @APPINFO, when the file
\* is empty and when it has the header line only; no object is produced.
C16_OpenErrors ==
    (appSt \in {"open", "failed"}) =>
        /\ ~EndsWith(fileName, Extension) =>
              (appSt = "failed" /\ openExc = "InvalidFileType" /\ fapp = NoApplication)
        /\ (/\ EndsWith(fileName, Extension)
            /\ \/ fileLines = <<>>
               \/ HeaderNot12Bytes
               \/ HeaderGood /\ Len(fileLines) = 1
               \/ LabelWrong) =>
              (appSt = "failed" /\ openExc = "InvalidApplicationFile" /\ fapp = NoApplication)

=============================================================================
